---- MODULE Spec2Model ----
(***************************************************************************)
(* Model of the `api` crate (src/src/lib.rs) and its example               *)
(* (src/examples/httpbin.rs): the Api trait and its implementors, the      *)
(* Transform decorator, the HttpResponse status helpers and the            *)
(* hyper-backed Client::send.                                              *)
(*                                                                         *)
(* Strings that are formatted, split or percent-encoded are sequences of   *)
(* one-character strings; the others are TLA+ strings.  Headers are        *)
(* functions from header names to sequences of values (a BTreeMap).        *)
(* A body (an io::Read) is the sequence of bytes it yields.                *)
(***************************************************************************)
EXTENDS Integers, Sequences, FiniteSets, TLC

VARIABLES
    objs,       \* the Api values alive: objs[1] the base value, then Transforms
    count,      \* count[i][name]: invocations of accessor / rewrite `name` of objs[i]
    ncalls,     \* accessor calls made by the caller so far
    ret,        \* what the caller's last accessor call returned
    seen,       \* seen[i][op]: every value accessor op of objs[i] has returned
    pc,         \* position inside Client::send
    req,        \* send's `req` argument (index into objs), 0 outside send
    base,       \* send's `url` argument
    url,        \* send's local `url`
    sbody,      \* send's local `body`
    shdrs,      \* send's local `headers` (hyper::header::Headers)
    wire,       \* the request handed to the transport
    resp,       \* send's local `resp`
    result,     \* what send returned
    trace,      \* the steps send has taken, in order
    status,     \* SpecStatus: the status an HttpResponse reports
    classes     \* SpecStatus: what is_1xx .. is_5xx returned for it

vars == <<objs, count, ncalls, ret, seen, pc, req, base, url, sbody, shdrs,
          wire, resp, result, trace, status, classes>>

transformVars == <<objs, count, ncalls, ret, seen>>
sendVars == <<pc, req, base, url, sbody, shdrs, wire, resp, result, trace>>
statusVars == <<status, classes>>

-----------------------------------------------------------------------------
(* Bounds *)

MaxCalls == 2

\* The Transform values a caller builds, as in tests::transform_and_reuse_api
Wrappers == {"t1_api", "t2_api"}

-----------------------------------------------------------------------------
(* Values *)

None == "None"

\* the absent value of a variable that holds a record
Absent == [tag |-> "None"]

Digits == <<"0", "1", "2", "3", "4", "5", "6", "7", "8", "9">>

\* u8::to_string / format!("{}", u8): the decimal digits of n
RECURSIVE to_string(_)
to_string(n) ==
    IF n < 10 THEN <<Digits[n + 1]>>
    ELSE to_string(n \div 10) \o <<Digits[(n % 10) + 1]>>

\* impl Into<hyper::method::Method> for Method
Method_into(m) == IF m.v = "Custom" THEN [v |-> "Extension", s |-> m.s] ELSE m

NoHeaders == <<>>

\* BTreeMap::insert: the name is set to the value list, replacing an old one
insert(h, k, v) == [n \in (DOMAIN h) \cup {k} |-> IF n = k THEN v ELSE h[n]]

\* Vec::push
push(q, pair) == Append(q, pair)

\* a generic helper that builds a fresh value instead of returning its argument
identity_default(x) == <<>>

identity(x) == x

-----------------------------------------------------------------------------
(* Responses (implementors of HttpResponse), as far as parse reads them *)

Responses ==
    { [status |-> 200, body |-> "json"],
      [status |-> 204, body |-> "empty"],
      [status |-> 404, body |-> "html"] }

is_1xx(r) == r.status \div 100 = 1
is_2xx(r) == r.status \div 100 = 2
is_3xx(r) == r.status \div 100 = 3
is_4xx(r) == r.status \div 100 = 4
\* 5xx taken as "500 and above"
is_5xx_open(r) == r.status \div 100 >= 5

is_5xx(r) == r.status \div 100 = 5

Ok(v) == [tag |-> "Ok", val |-> v]
Err(e) == [tag |-> "Err", val |-> e]

-----------------------------------------------------------------------------
(* The base Api values: TestApi (lib.rs tests), Delay (examples/httpbin.rs) *)
(* and UserApi, a caller-written implementor whose path carries a query,   *)
(* whose headers and body are not empty and whose parse reads the status.  *)

NoFn == "-"

TestApi(n) == [kind |-> "TestApi", n |-> n, api |-> 0, h |-> NoFn, q |-> NoFn, b |-> NoFn]
Delay(d)   == [kind |-> "Delay", n |-> d, api |-> 0, h |-> NoFn, q |-> NoFn, b |-> NoFn]
UserApi    == [kind |-> "UserApi", n |-> 0, api |-> 0, h |-> NoFn, q |-> NoFn, b |-> NoFn]

BaseApis == {TestApi(10), Delay(1), UserApi}

TestApi_method(o)  == [v |-> "Post", s |-> ""]
TestApi_path(o)    == <<"/", "t", "o", "p">>
TestApi_query(o)   == << << <<"n">>, to_string(o.n) >> >>
TestApi_headers(o) == NoHeaders
TestApi_body(o)    == <<>>
TestApi_parse(o, r) == Ok("vec![]")

Delay_method(o)  == [v |-> "Get", s |-> ""]
Delay_path(o)    == <<"/", "d", "e", "l", "a", "y", "/">> \o to_string(o.n)
Delay_query(o)   == <<>>
Delay_headers(o) == NoHeaders
Delay_body(o)    == <<>>
\* serde_json::from_reader(resp.body()): an Info, or serde_json's error
Delay_parse(o, r) ==
    IF r.body = "json" THEN Ok("Info") ELSE Err("serde_json::Error")

UserApi_method(o)  == [v |-> "Custom", s |-> "LIST"]
UserApi_path(o)    == <<"/", "s", "?", "k", "=", "v">>
UserApi_query(o)   == << << <<"k">>, <<"w">> >> >>
UserApi_headers(o) == insert(NoHeaders, "Accept", <<"a/b", "c/d">>)
UserApi_body(o)    == <<1, 2>>
UserApi_parse(o, r) ==
    IF is_2xx(r) THEN Ok("status ok") ELSE Err("bad status")

Base_method(o) ==
    CASE o.kind = "TestApi" -> TestApi_method(o)
      [] o.kind = "Delay"   -> Delay_method(o)
      [] o.kind = "UserApi" -> UserApi_method(o)
Base_path(o) ==
    CASE o.kind = "TestApi" -> TestApi_path(o)
      [] o.kind = "Delay"   -> Delay_path(o)
      [] o.kind = "UserApi" -> UserApi_path(o)
Base_query(o) ==
    CASE o.kind = "TestApi" -> TestApi_query(o)
      [] o.kind = "Delay"   -> Delay_query(o)
      [] o.kind = "UserApi" -> UserApi_query(o)
Base_headers(o) ==
    CASE o.kind = "TestApi" -> TestApi_headers(o)
      [] o.kind = "Delay"   -> Delay_headers(o)
      [] o.kind = "UserApi" -> UserApi_headers(o)
Base_body(o) ==
    CASE o.kind = "TestApi" -> TestApi_body(o)
      [] o.kind = "Delay"   -> Delay_body(o)
      [] o.kind = "UserApi" -> UserApi_body(o)
Base_parse(o, r) ==
    CASE o.kind = "TestApi" -> TestApi_parse(o, r)
      [] o.kind = "Delay"   -> Delay_parse(o, r)
      [] o.kind = "UserApi" -> UserApi_parse(o, r)

-----------------------------------------------------------------------------
(* The rewrite functions a caller hands to transform.  The closures of the *)
(* tests, identity, and closures that do not commute with them.            *)

\* |mut h| { h.insert("X-Request-ID", vec![...]); h }
Apply_h(f, h) ==
    CASE f = "identity"         -> identity(h)
      [] f = "insert_abcdef123" -> insert(h, "X-Request-ID", <<"abcdef123">>)
      [] f = "insert_321fedcba" -> insert(h, "X-Request-ID", <<"321fedcba">>)

\* |mut q| { q.push((.., ..)); q }
Apply_q(f, q) ==
    CASE f = "identity"     -> identity(q)
      [] f = "push_foo_bar" -> push(q, << <<"f", "o", "o">>, <<"b", "a", "r">> >>)
      [] f = "push_n_amp"   -> push(q, << <<"n">>, <<"1", "&", "n", "=", " ">> >>)

\* body wrappers: Read::chain(b"\r\n") and Read::take(1)
Apply_b(f, b) ==
    CASE f = "identity"   -> identity(b)
      [] f = "chain_crlf" -> b \o <<13, 10>>
      [] f = "take_1"     -> IF Len(b) > 1 THEN SubSeq(b, 1, 1) ELSE b

Rewrites ==
    { [h |-> "identity",         q |-> "identity",     b |-> "identity"],
      [h |-> "insert_abcdef123", q |-> "push_foo_bar", b |-> "identity"],
      [h |-> "insert_321fedcba", q |-> "identity",     b |-> "chain_crlf"],
      [h |-> "identity",         q |-> "push_n_amp",   b |-> "take_1"] }

-----------------------------------------------------------------------------
(* impl Api for Transform.  An accessor evaluates to [val, log]: the value *)
(* returned and the accessor and rewrite invocations made, in order.       *)

RECURSIVE method(_, _), path(_, _), query(_, _), headers(_, _), body(_, _),
          parse(_, _, _)

\* headers() through a closure slot shared by every Transform: the last one stored
Transform_headers_shared(os, i) ==
    LET r == headers(os, os[i].api)
    IN  [val |-> Apply_h(os[Len(os)].h, r.val), log |-> r.log \o << <<i, "h">> >>]

\* query() that rewrites first and lets the wrapped Transform rewrite the result
Transform_query_outer_first(os, i) ==
    LET u == os[i].api
        r == query(os, u)
    IN  IF os[u].kind = "Transform"
        THEN [val |-> Apply_q(os[u].q, Apply_q(os[i].q, query(os, os[u].api).val)),
              log |-> r.log \o << <<i, "q">> >>]
        ELSE [val |-> Apply_q(os[i].q, r.val), log |-> r.log \o << <<i, "q">> >>]

\* body() that reads the wrapped body twice
Transform_body_reads_twice(os, i) ==
    LET r == body(os, os[i].api)
    IN  [val |-> Apply_b(os[i].b, r.val), log |-> r.log \o r.log \o << <<i, "b">> >>]

\* parse that checks the status itself before delegating
Transform_parse_checked(os, i, r) ==
    LET p == parse(os, os[i].api, r)
    IN  [val |-> IF is_2xx(r) THEN p.val ELSE Err("bad status"), log |-> p.log]

Transform_method(os, i) ==
    LET r == method(os, os[i].api) IN [val |-> r.val, log |-> r.log]

Transform_path(os, i) ==
    LET r == path(os, os[i].api) IN [val |-> r.val, log |-> r.log]

Transform_query(os, i) ==
    LET r == query(os, os[i].api)
    IN  [val |-> Apply_q(os[i].q, r.val), log |-> r.log \o << <<i, "q">> >>]

Transform_headers(os, i) ==
    LET r == headers(os, os[i].api)
    IN  [val |-> Apply_h(os[i].h, r.val), log |-> r.log \o << <<i, "h">> >>]

Transform_body(os, i) ==
    LET r == body(os, os[i].api)
    IN  [val |-> Apply_b(os[i].b, r.val), log |-> r.log \o << <<i, "b">> >>]

Transform_parse(os, i, r) ==
    LET p == parse(os, os[i].api, r) IN [val |-> p.val, log |-> p.log]

Called(i, op, r) == [val |-> r.val, log |-> << <<i, op>> >> \o r.log]

method(os, i) ==
    IF os[i].kind = "Transform" THEN Called(i, "method", Transform_method(os, i))
    ELSE Called(i, "method", [val |-> Base_method(os[i]), log |-> <<>>])
path(os, i) ==
    IF os[i].kind = "Transform" THEN Called(i, "path", Transform_path(os, i))
    ELSE Called(i, "path", [val |-> Base_path(os[i]), log |-> <<>>])
query(os, i) ==
    IF os[i].kind = "Transform" THEN Called(i, "query", Transform_query(os, i))
    ELSE Called(i, "query", [val |-> Base_query(os[i]), log |-> <<>>])
headers(os, i) ==
    IF os[i].kind = "Transform" THEN Called(i, "headers", Transform_headers(os, i))
    ELSE Called(i, "headers", [val |-> Base_headers(os[i]), log |-> <<>>])
body(os, i) ==
    IF os[i].kind = "Transform" THEN Called(i, "body", Transform_body(os, i))
    ELSE Called(i, "body", [val |-> Base_body(os[i]), log |-> <<>>])
parse(os, i, r) ==
    IF os[i].kind = "Transform" THEN Called(i, "parse", Transform_parse(os, i, r))
    ELSE Called(i, "parse", [val |-> Base_parse(os[i], r), log |-> <<>>])

\* Api::transform: a Transform borrowing `self` and owning h, q, b
transform(i, h, q, b) ==
    [kind |-> "Transform", n |-> 0, api |-> i, h |-> h, q |-> q, b |-> b]

-----------------------------------------------------------------------------
(* Bookkeeping of invocations and returned values *)

Names == {"method", "path", "query", "headers", "body", "parse", "h", "q", "b"}
Ops == {"method", "path", "query", "headers", "body", "parse"}

NoCount == [n \in Names |-> 0]
NoSeen == [o \in Ops |-> {}]

RECURSIVE Tally(_, _)
Tally(c, log) ==
    IF log = <<>> THEN c
    ELSE LET e == Head(log)
         IN  Tally([c EXCEPT ![e[1]][e[2]] = @ + 1], Tail(log))

-----------------------------------------------------------------------------
(* Initial state *)

NoRet == [obj |-> 0, op |-> None, arg |-> None, val |-> None, log |-> <<>>]

InitSend ==
    /\ pc = "idle" /\ req = 0 /\ base = Absent /\ url = Absent /\ sbody = None
    /\ shdrs = None /\ wire = Absent /\ resp = Absent /\ result = Absent
    /\ trace = <<>>

InitStatus == status = 200 /\ classes = Absent

Init ==
    /\ \E a \in BaseApis : objs = <<a>>
    /\ count = <<NoCount>>
    /\ ncalls = 0
    /\ ret = NoRet
    /\ seen = <<NoSeen>>
    /\ InitSend
    /\ InitStatus

-----------------------------------------------------------------------------
(* The caller's operations on Api values *)

\* let t = objs[i].transform(h, q, b)
Transform(i, rw) ==
    /\ pc = "idle"
    /\ Len(objs) <= Cardinality(Wrappers)
    /\ objs' = Append(objs, transform(i, rw.h, rw.q, rw.b))
    /\ count' = Append(count, NoCount)
    /\ seen' = Append(seen, NoSeen)
    /\ UNCHANGED <<ncalls, ret, sendVars, statusVars>>

Returned(i, op, arg, r) ==
    /\ pc = "idle"
    /\ ncalls < MaxCalls
    /\ ncalls' = ncalls + 1
    /\ ret' = [obj |-> i, op |-> op, arg |-> arg, val |-> r.val, log |-> r.log]
    /\ count' = Tally(count, r.log)
    /\ seen' = [seen EXCEPT ![i][op] = @ \cup {<<arg, r.val>>}]
    /\ UNCHANGED <<objs, sendVars, statusVars>>

CallMethod(i)   == Returned(i, "method", None, method(objs, i))
CallPath(i)     == Returned(i, "path", None, path(objs, i))
CallQuery(i)    == Returned(i, "query", None, query(objs, i))
CallHeaders(i)  == Returned(i, "headers", None, headers(objs, i))
CallBody(i)     == Returned(i, "body", None, body(objs, i))
CallParse(i, r) == Returned(i, "parse", r, parse(objs, i, r))

NextTransform ==
    \/ \E i \in 1..Len(objs) : \E rw \in Rewrites : Transform(i, rw)
    \/ \E i \in 1..Len(objs) : CallMethod(i)
    \/ \E i \in 1..Len(objs) : CallPath(i)
    \/ \E i \in 1..Len(objs) : CallQuery(i)
    \/ \E i \in 1..Len(objs) : CallHeaders(i)
    \/ \E i \in 1..Len(objs) : CallBody(i)
    \/ \E i \in 1..Len(objs) : \E r \in Responses : CallParse(i, r)

SpecTransform == Init /\ [][NextTransform]_vars

-----------------------------------------------------------------------------
(* hyper::Url as send uses it.  A base URL either does not parse, parses   *)
(* to a URL that cannot be a base (join then fails), or parses to a        *)
(* hierarchical URL with a path and possibly a query.                      *)

BaseUrls ==
    { [text |-> "http://httpbin.org/", kind |-> "ok",
       path |-> <<"/">>, has_query |-> FALSE, query |-> <<>>],
      [text |-> "http://h/v1/?t=1", kind |-> "ok",
       path |-> <<"/", "v", "1", "/">>, has_query |-> TRUE, query |-> <<"t", "=", "1">>],
      [text |-> "mailto:a@b", kind |-> "cannot-be-a-base",
       path |-> <<"a", "@", "b">>, has_query |-> FALSE, query |-> <<>>],
      [text |-> "httpbin.org", kind |-> "invalid",
       path |-> <<>>, has_query |-> FALSE, query |-> <<>>] }

\* hyper::Url::parse
Url_parse(u) ==
    IF u.kind = "invalid" THEN Err("Uri(RelativeUrlWithoutBase)")
    ELSE Ok([kind |-> u.kind, path |-> u.path, has_query |-> u.has_query,
             query |-> u.query])

RECURSIVE IndexOf(_, _, _)
IndexOf(s, c, k) ==
    IF k > Len(s) THEN 0 ELSE IF s[k] = c THEN k ELSE IndexOf(s, c, k + 1)

\* Url::join of a reference that starts with "/" (or is empty): the base's
\* path and query are replaced by the reference's; an empty reference
\* keeps both.
Url_join(u, p) ==
    IF u.kind = "cannot-be-a-base"
    THEN Err("Uri(RelativeUrlWithCannotBeABaseBase)")
    ELSE IF p = <<>> THEN Ok(u)
    ELSE LET k == IndexOf(p, "?", 1)
         IN  IF k = 0
             THEN Ok([u EXCEPT !.path = p, !.has_query = FALSE, !.query = <<>>])
             ELSE Ok([u EXCEPT !.path = SubSeq(p, 1, k - 1), !.has_query = TRUE,
                               !.query = SubSeq(p, k + 1, Len(p))])

\* form_urlencoded::byte_serialize, one character
Encode_char(c) ==
    CASE c = " " -> <<"+">>
      [] c = "&" -> <<"%", "2", "6">>
      [] c = "=" -> <<"%", "3", "D">>
      [] c = "?" -> <<"%", "3", "F">>
      [] c = "/" -> <<"%", "2", "F">>
      [] c = "+" -> <<"%", "2", "B">>
      [] c = "%" -> <<"%", "2", "5">>
      [] OTHER   -> <<c>>

\* a serializer that copies the characters as they are
byte_serialize_raw(s) == s

RECURSIVE byte_serialize(_)
byte_serialize(s) ==
    IF s = <<>> THEN <<>> ELSE Encode_char(Head(s)) \o byte_serialize(Tail(s))

\* Serializer::append_pair: "&" unless the query is still empty, then
\* name=value, both serialized
append_pair(qs, name, value) ==
    (IF qs = <<>> THEN <<>> ELSE qs \o <<"&">>)
        \o byte_serialize(name) \o <<"=">> \o byte_serialize(value)

\* for (name, value) in req.query() { query.append_pair(name, value) }
RECURSIVE append_pairs(_, _)
append_pairs(qs, pairs) ==
    IF pairs = <<>> THEN qs
    ELSE append_pairs(append_pair(qs, Head(pairs)[1], Head(pairs)[2]), Tail(pairs))

\* url.query_pairs_mut(): a URL without a query gets the empty query
query_pairs_mut(u) == [u EXCEPT !.has_query = TRUE]

\* for (name, value) in req.headers() { headers.set_raw(name, values) }
RECURSIVE set_raw_all(_, _, _)
set_raw_all(acc, h, names) ==
    IF names = {} THEN acc
    ELSE LET n == CHOOSE x \in names : TRUE
         IN  set_raw_all(insert(acc, n, h[n]), h, names \ {n})

\* what the transport answers: a hyper::Error, or a response
TransportErrors == {"Io", "Ssl"}

SendError_Client(e) == [tag |-> "Err", variant |-> "Client", val |-> e]

\* a parse error wrapped in the transport variant
SendError_Api_as_Client(e) == [tag |-> "Err", variant |-> "Client", val |-> e]

SendError_Api(e)    == [tag |-> "Err", variant |-> "Api", val |-> e]

-----------------------------------------------------------------------------
(* Client::send for hyper::Client, one action per statement *)

\* client.send(u.text, objs[i])
SendCall(i, u) ==
    /\ pc = "idle"
    /\ pc' = "Url::parse"
    /\ req' = i
    /\ base' = u
    /\ UNCHANGED <<transformVars, url, sbody, shdrs, wire, resp, result, trace,
                   statusVars>>

\* the statements in the order query, headers, body
After_body_last(p) ==
    CASE p = "Url::parse" -> "join"
      [] p = "join"       -> "query"
      [] p = "query"      -> "headers"
      [] p = "headers"    -> "body"
      [] p = "body"       -> "request"
      [] p = "request"    -> "parse"
      [] p = "parse"      -> "done"

\* the statement that follows statement p when p does not return
After(p) ==
    CASE p = "Url::parse" -> "join"
      [] p = "join"       -> "body"
      [] p = "body"       -> "query"
      [] p = "query"      -> "headers"
      [] p = "headers"    -> "request"
      [] p = "request"    -> "parse"
      [] p = "parse"      -> "done"

\* the error is stored and send goes on with the next statement
Fail_goes_on(e, steps) ==
    /\ result' = SendError_Client(e)
    /\ trace' = trace \o steps
    /\ pc' = After(pc)

\* map_err(|e| SendError::Client(..))?: return the transport-side error
Fail(e, steps) ==
    /\ result' = SendError_Client(e)
    /\ trace' = trace \o steps
    /\ pc' = "done"

\* hyper::Url::parse(url).map_err(..)?
SendUrlParse ==
    /\ pc = "Url::parse"
    /\ LET u == Url_parse(base)
       IN  IF u.tag = "Err"
           THEN Fail(u.val, <<"Url::parse">>) /\ UNCHANGED url
           ELSE /\ url' = u.val
                /\ trace' = Append(trace, "Url::parse")
                /\ pc' = After(pc)
                /\ UNCHANGED result
    /\ UNCHANGED <<transformVars, req, base, sbody, shdrs, wire, resp, statusVars>>

\* .join(req.path().as_ref()).map_err(..)?
SendJoin ==
    /\ pc = "join"
    /\ LET p == path(objs, req)
           u == Url_join(url, p.val)
       IN  /\ count' = Tally(count, p.log)
           /\ IF u.tag = "Err"
              THEN Fail(u.val, <<"path", "join">>) /\ UNCHANGED url
              ELSE /\ url' = u.val
                   /\ trace' = trace \o <<"path", "join">>
                   /\ pc' = After(pc)
                   /\ UNCHANGED result
    /\ UNCHANGED <<objs, ncalls, ret, seen, req, base, sbody, shdrs, wire, resp,
                   statusVars>>

\* let mut body = req.body(); let body = Body::ChunkedBody(&mut body);
SendBody ==
    /\ pc = "body"
    /\ LET b == body(objs, req)
       IN  /\ count' = Tally(count, b.log)
           /\ sbody' = b.val
    /\ trace' = Append(trace, "body")
    /\ pc' = After(pc)
    /\ UNCHANGED <<objs, ncalls, ret, seen, req, base, url, shdrs, wire, resp,
                   result, statusVars>>

\* the query_pairs_mut block
SendQuery ==
    /\ pc = "query"
    /\ LET q == query(objs, req)
       IN  /\ count' = Tally(count, q.log)
           /\ url' = [query_pairs_mut(url) EXCEPT !.query = append_pairs(@, q.val)]
    /\ trace' = Append(trace, "query")
    /\ pc' = After(pc)
    /\ UNCHANGED <<objs, ncalls, ret, seen, req, base, sbody, shdrs, wire, resp,
                   result, statusVars>>

\* the headers.set_raw loop
SendHeaders ==
    /\ pc = "headers"
    /\ LET h == headers(objs, req)
       IN  /\ count' = Tally(count, h.log)
           /\ shdrs' = set_raw_all(NoHeaders, h.val, DOMAIN h.val)
    /\ trace' = Append(trace, "headers")
    /\ pc' = After(pc)
    /\ UNCHANGED <<objs, ncalls, ret, seen, req, base, url, sbody, wire, resp,
                   result, statusVars>>

\* self.request(req.method().into(), url).headers(headers).body(body).send()
\*     .map_err(|e| SendError::Client(e))?
SendRequest ==
    /\ pc = "request"
    /\ LET m == method(objs, req)
       IN  /\ count' = Tally(count, m.log)
           /\ wire' = [method |-> Method_into(m.val), url |-> url,
                       headers |-> shdrs, body |-> sbody]
    /\ \/ \E e \in TransportErrors :
            Fail(e, <<"method", "request">>) /\ UNCHANGED resp
       \/ \E r \in Responses :
            /\ resp' = r
            /\ trace' = trace \o <<"method", "request">>
            /\ pc' = After(pc)
            /\ UNCHANGED result
    /\ UNCHANGED <<objs, ncalls, ret, seen, req, base, url, sbody, shdrs,
                   statusVars>>

\* req.parse(&mut resp).map_err(|e| SendError::Api(e))
SendParse ==
    /\ pc = "parse"
    /\ LET p == parse(objs, req, resp)
       IN  /\ count' = Tally(count, p.log)
           /\ result' = IF p.val.tag = "Err" THEN SendError_Api(p.val.val)
                        ELSE Ok(p.val.val)
    /\ trace' = Append(trace, "parse")
    /\ pc' = After(pc)
    /\ UNCHANGED <<objs, ncalls, ret, seen, req, base, url, sbody, shdrs, wire,
                   resp, statusVars>>

NextSend ==
    \/ \E i \in 1..Len(objs) : \E rw \in Rewrites : Transform(i, rw)
    \/ \E i \in 1..Len(objs) : \E u \in BaseUrls : SendCall(i, u)
    \/ SendUrlParse
    \/ SendJoin
    \/ SendBody
    \/ SendQuery
    \/ SendHeaders
    \/ SendRequest
    \/ SendParse

SpecSend == Init /\ [][NextSend]_vars

-----------------------------------------------------------------------------
(* HttpResponse's status helpers, over every value status() can return *)

U16Max == 65535

InitStatusSpec ==
    /\ objs = <<TestApi(10)>>
    /\ count = <<NoCount>>
    /\ ncalls = 0
    /\ ret = NoRet
    /\ seen = <<NoSeen>>
    /\ InitSend
    /\ status \in 0..U16Max
    /\ classes = Absent

Classify ==
    /\ classes = Absent
    /\ LET r == [status |-> status, body |-> "empty"]
       IN  classes' = [is |-> <<is_1xx(r), is_2xx(r), is_3xx(r), is_4xx(r), is_5xx(r)>>]
    /\ UNCHANGED <<transformVars, sendVars, status>>

NextStatus == Classify

SpecStatus == InitStatusSpec /\ [][NextStatus]_vars

-----------------------------------------------------------------------------
(* Properties of Transform (checked under SpecTransform) *)

IsTransform(i) == objs[i].kind = "Transform"
Objs == 1..Len(objs)

RECURSIVE Occurrences(_, _)
Occurrences(log, e) ==
    IF log = <<>> THEN 0
    ELSE (IF Head(log) = e THEN 1 ELSE 0) + Occurrences(Tail(log), e)

IsIdentityTransform(t) ==
    /\ IsTransform(t)
    /\ objs[t].h = "identity" /\ objs[t].q = "identity" /\ objs[t].b = "identity"

\* C3: a Transform of a built with identity for the three rewrites returns,
\* on every call, headers() equal to a.headers() and query() equal to
\* a.query(): what the caller saw of it equals a's value and what the caller
\* saw of a.
C3_IdentityTransparent ==
    \A t \in Objs :
        IsIdentityTransform(t) =>
            LET a == objs[t].api
            IN  /\ \A v \in seen[t]["headers"] :
                     /\ v[2] = headers(objs, a).val
                     /\ \A w \in seen[a]["headers"] : w[2] = v[2]
                /\ \A v \in seen[t]["query"] :
                     /\ v[2] = query(objs, a).val
                     /\ \A w \in seen[a]["query"] : w[2] = v[2]

\* an identity Transform of a value with headers and a query has returned both
C3_Witness ==
    \E t \in Objs :
        /\ IsIdentityTransform(t)
        /\ \E v \in seen[t]["headers"] : v[2] # NoHeaders
        /\ \E v \in seen[t]["query"] : v[2] # <<>>

\* C4: two Transforms t1, t2 of the same a with different rewrites: whatever
\* the calls made so far, t1's headers()/query() are t1's own rewrites of a's
\* values (and so for t2), and a's headers()/query() are a's own values.
C4_Independent ==
    \A t1, t2 \in Objs :
        (/\ t1 # t2 /\ IsTransform(t1) /\ IsTransform(t2)
         /\ objs[t1].api = objs[t2].api /\ objs[t1] # objs[t2]) =>
            LET a == objs[t1].api
                ah == IF IsTransform(a) THEN headers(objs, a).val ELSE Base_headers(objs[a])
                aq == IF IsTransform(a) THEN query(objs, a).val ELSE Base_query(objs[a])
            IN  /\ \A v \in seen[t1]["headers"] : v[2] = Apply_h(objs[t1].h, ah)
                /\ \A v \in seen[t1]["query"] : v[2] = Apply_q(objs[t1].q, aq)
                /\ \A v \in seen[a]["headers"] : v[2] = ah
                /\ \A v \in seen[a]["query"] : v[2] = aq

\* two Transforms of the same value with different header rewrites have both
\* returned headers, and not the same ones
C4_Witness ==
    \E t1, t2 \in Objs :
        /\ t1 # t2 /\ IsTransform(t1) /\ IsTransform(t2)
        /\ objs[t1].api = objs[t2].api
        /\ objs[t1].h # objs[t2].h
        /\ \E v \in seen[t1]["headers"] : \E w \in seen[t2]["headers"] : v[2] # w[2]

\* C5: a Transform of a returns a.method(), a.path() and, on a response,
\* what a.parse returns on it; these three calls invoke no rewrite function.
C5_Delegation ==
    /\ \A t \in Objs :
         IsTransform(t) =>
            LET a == objs[t].api
            IN  /\ \A v \in seen[t]["method"] : v[2] = method(objs, a).val
                /\ \A v \in seen[t]["path"] : v[2] = path(objs, a).val
                /\ \A v \in seen[t]["parse"] : v[2] = parse(objs, a, v[1]).val
    /\ ret.op \in {"method", "path", "parse"} =>
         \A k \in 1..Len(ret.log) : ret.log[k][2] \notin {"h", "q", "b"}

\* a Transform with rewrites that are not the identity has parsed a response
\* its wrapped value accepts although the status is not 2xx
C5_Witness ==
    /\ ret.obj # 0
    /\ IsTransform(ret.obj)
    /\ objs[ret.obj].h # "identity"
    /\ ret.op = "parse"
    /\ ~is_2xx(ret.arg)
    /\ ret.val.tag = "Ok"

\* C6: for a Transform t (h2, q2, b2) of a Transform u (h1, q1, b1) of a,
\* headers() = h2(h1(a.headers())), query() = q2(q1(a.query())) and
\* body() = b2(b1(a.body())).
C6_WrapOrder ==
    \A t \in Objs :
        (IsTransform(t) /\ IsTransform(objs[t].api)) =>
            LET u == objs[t].api
                a == objs[u].api
            IN  /\ \A v \in seen[t]["headers"] :
                     v[2] = Apply_h(objs[t].h, Apply_h(objs[u].h, headers(objs, a).val))
                /\ \A v \in seen[t]["query"] :
                     v[2] = Apply_q(objs[t].q, Apply_q(objs[u].q, query(objs, a).val))
                /\ \A v \in seen[t]["body"] :
                     v[2] = Apply_b(objs[t].b, Apply_b(objs[u].b, body(objs, a).val))

\* a Transform of a Transform has returned a query, and the two query
\* rewrites applied in the other order would have given another one
C6_Witness ==
    \E t \in Objs :
        /\ IsTransform(t) /\ IsTransform(objs[t].api)
        /\ LET u == objs[t].api
               x == query(objs, objs[u].api).val
           IN  /\ seen[t]["query"] # {}
               /\ Apply_q(objs[t].q, Apply_q(objs[u].q, x))
                    # Apply_q(objs[u].q, Apply_q(objs[t].q, x))

RewriteOf(op) ==
    CASE op = "headers" -> "h" [] op = "query" -> "q" [] op = "body" -> "b"

\* C10: a call to headers(), query() or body() of a Transform invokes its
\* own rewrite once, the wrapped value's accessor once and neither of its other
\* rewrites; each rewrite has been invoked as often as its accessor was called;
\* and an accessor called twice returned equal values.
C10_OncePerCall ==
    /\ \A i \in Objs :
         IsTransform(i) =>
            /\ count[i]["h"] = count[i]["headers"]
            /\ count[i]["q"] = count[i]["query"]
            /\ count[i]["b"] = count[i]["body"]
    /\ (ret.op \in {"headers", "query", "body"} /\ IsTransform(ret.obj)) =>
         /\ Occurrences(ret.log, <<ret.obj, RewriteOf(ret.op)>>) = 1
         /\ Occurrences(ret.log, <<objs[ret.obj].api, ret.op>>) = 1
         /\ \A f \in {"h", "q", "b"} \ {RewriteOf(ret.op)} :
              Occurrences(ret.log, <<ret.obj, f>>) = 0
    /\ \A i \in Objs : \A op \in Ops :
         \A v, w \in seen[i][op] : v[1] = w[1] => v[2] = w[2]

\* the body of a Transform of a Transform was obtained twice
C10_Witness ==
    \E i \in Objs :
        /\ IsTransform(i) /\ IsTransform(objs[i].api)
        /\ count[i]["body"] = 2
        /\ count[objs[i].api]["b"] = 2
        /\ Cardinality(seen[i]["body"]) = 1

-----------------------------------------------------------------------------
(* Properties of Client::send (checked under SpecSend) *)

RECURSIVE Root(_)
Root(i) == IF IsTransform(i) THEN Root(objs[i].api) ELSE i

IsPrefix(s, t) == Len(s) <= Len(t) /\ s = SubSeq(t, 1, Len(s))

Failed == result.tag = "Err" /\ result.variant = "Client"

ParseCalls(i) == count[i]["parse"]

\* C1: when the base URL does not parse, the join fails or the transport
\* fails, send has returned SendError::Client at that statement and no parse
\* of any Api value was invoked; parse is invoked only once the transport has
\* returned a response.
C1_NoParseOnTransportFailure ==
    /\ Failed =>
         /\ pc = "done"
         /\ resp = Absent
         /\ \A i \in Objs : ParseCalls(i) = 0
         /\ trace[Len(trace)] \in {"Url::parse", "join", "request"}
    /\ (pc \notin {"idle", "Url::parse"} /\ base.kind = "invalid") =>
         Failed /\ trace = <<"Url::parse">>
    /\ (pc \notin {"idle", "Url::parse", "join"} /\ base.kind = "cannot-be-a-base") =>
         Failed /\ trace = <<"Url::parse", "path", "join">>
    /\ (pc = "done" /\ resp = Absent) => Failed
    /\ \A i \in Objs :
         ParseCalls(i) > 0 =>
            /\ resp # Absent
            /\ \E k \in 1..Len(trace) : trace[k] = "request"

\* the transport failed on a request built from a Transform, and send returned
C1_Witness ==
    /\ pc = "done"
    /\ Failed
    /\ result.val \in TransportErrors
    /\ IsTransform(req)
    /\ wire # Absent

\* C2: send returns Ok(reply) with the reply parse returned, or
\* SendError::Api(e) with the error parse returned, or SendError::Client(e)
\* with the URL or transport error, and nothing else; before it returns there
\* is no result.
C2_ThreeOutcomes ==
    /\ pc # "done" => result = Absent
    /\ pc = "done" =>
         IF resp # Absent
         THEN LET p == Base_parse(objs[Root(req)], resp)
              IN  \/ p.tag = "Ok" /\ result = [tag |-> "Ok", val |-> p.val]
                  \/ /\ p.tag = "Err"
                     /\ result = [tag |-> "Err", variant |-> "Api", val |-> p.val]
         ELSE /\ result.tag = "Err"
              /\ result.variant = "Client"
              /\ result.val \in
                   IF base.kind = "invalid" THEN {"Uri(RelativeUrlWithoutBase)"}
                   ELSE IF base.kind = "cannot-be-a-base"
                        THEN {"Uri(RelativeUrlWithCannotBeABaseBase)"}
                        ELSE TransportErrors

\* send over a Transform returned the error of the wrapped value's parse
C2_Witness ==
    /\ pc = "done"
    /\ IsTransform(req)
    /\ resp # Absent
    /\ result.tag = "Err"
    /\ result.variant = "Api"
    /\ result.val = "serde_json::Error"

SpecOrder ==
    <<"Url::parse", "path", "join", "query", "headers", "body", "method",
      "request", "parse">>

CodeOrder ==
    <<"Url::parse", "path", "join", "body", "query", "headers", "method",
      "request", "parse">>

\* C7 as stated: the steps of one send are taken in the order base URL parse,
\* join of path(), query(), headers(), body(), request with method(), parse.
C7_BodyAfterHeaders == IsPrefix(trace, SpecOrder)

\* C7: the steps of one send are taken in the order base URL parse, join of
\* path(), body(), query(), headers(), request with method(), parse: body()
\* is obtained right after the join, before query() and headers() are read.
C7_BodyBeforeQuery ==
    /\ IsPrefix(trace, CodeOrder)
    /\ (pc = "done" /\ resp # Absent) => trace = CodeOrder

\* a send whose Api value has a query, headers and a body ran to its end
C7_Witness ==
    /\ pc = "done"
    /\ trace = CodeOrder
    /\ wire.body # <<>>
    /\ wire.headers # NoHeaders
    /\ wire.url.query # <<>>

RECURSIVE Split(_, _)
Split(s, c) ==
    LET k == IndexOf(s, c, 1)
    IN  IF k = 0 THEN <<s>>
        ELSE <<SubSeq(s, 1, k - 1)>> \o Split(SubSeq(s, k + 1, Len(s)), c)

Unhex(a, b) ==
    CASE <<a, b>> = <<"2", "6">> -> "&"
      [] <<a, b>> = <<"3", "D">> -> "="
      [] <<a, b>> = <<"3", "F">> -> "?"
      [] <<a, b>> = <<"2", "F">> -> "/"
      [] <<a, b>> = <<"2", "B">> -> "+"
      [] <<a, b>> = <<"2", "5">> -> "%"

RECURSIVE Decode(_)
Decode(s) ==
    IF s = <<>> THEN <<>>
    ELSE IF Head(s) = "+" THEN <<" ">> \o Decode(Tail(s))
    ELSE IF Head(s) = "%" /\ Len(s) >= 3
         THEN <<Unhex(s[2], s[3])>> \o Decode(SubSeq(s, 4, Len(s)))
    ELSE <<Head(s)>> \o Decode(Tail(s))

RECURSIVE PairsOf(_)
PairsOf(segs) ==
    IF segs = <<>> THEN <<>>
    ELSE LET g == Head(segs)
             k == IndexOf(g, "=", 1)
         IN  IF g = <<>> THEN PairsOf(Tail(segs))
             ELSE IF k = 0 THEN << <<Decode(g), <<>> >> >> \o PairsOf(Tail(segs))
             ELSE << <<Decode(SubSeq(g, 1, k - 1)), Decode(SubSeq(g, k + 1, Len(g)))>> >>
                    \o PairsOf(Tail(segs))

\* the (name, value) pairs a query string holds (Url::query_pairs)
QueryPairs(u) == IF u.has_query THEN PairsOf(Split(u.query, "&")) ELSE <<>>

\* C9: the query block of send leaves on the URL the pairs it held after the
\* join, followed by the pairs of req.query() in their order, none dropped,
\* merged or reordered, duplicate names kept.
C9_QueryAppended ==
    [][pc = "query" =>
         QueryPairs(url') = QueryPairs(url) \o query(objs, req).val]_vars

\* the URL held a pair after the join; a pair of the same name and a pair
\* whose value holds "&", "=" and a space were appended to it
C9_Witness ==
    /\ pc = "headers"
    /\ QueryPairs(url) =
         << << <<"k">>, <<"v">> >>,
            << <<"k">>, <<"w">> >>,
            << <<"n">>, <<"1", "&", "n", "=", " ">> >> >>

-----------------------------------------------------------------------------
(* Properties of the status helpers (checked under SpecStatus) *)

\* C8: for a status s with 100 <= s <= 599 exactly one of is_1xx .. is_5xx is
\* true, the one numbered s / 100; for any other s all five are false.
C8_StatusClasses ==
    classes # Absent =>
        /\ \A k \in 1..5 :
             classes.is[k] <=> (100 * k <= status /\ status <= 100 * k + 99)
        /\ (100 <= status /\ status <= 599) =>
             /\ Cardinality({k \in 1..5 : classes.is[k]}) = 1
             /\ classes.is[status \div 100]
        /\ (status < 100 \/ status > 599) => \A k \in 1..5 : ~classes.is[k]

\* status 204 was classified: 2xx and nothing else
C8_Witness ==
    /\ status = 204
    /\ classes = [is |-> <<FALSE, TRUE, FALSE, FALSE, FALSE>>]

====
